---- MODULE Spec2Model ----
(***************************************************************************)
(* Budget tracker (budget_dashboard.py): a CSV store of month-files,       *)
(* category/source lists and recurring charges, synchronised with a git    *)
(* remote on every script run (clone_or_pull_repo) and after every write   *)
(* (push_changes_to_repo).                                                  *)
(*                                                                         *)
(* A CSV file is [exists, header, rows]: header is the set of columns in   *)
(* the file, rows a sequence of functions column -> text.  A DataFrame is  *)
(* a sequence of functions column -> value, where a numeric value is an    *)
(* integer and a text value is Str(s) or NaN (pandas' missing value).      *)
(* Amounts are floats in the program; the model uses the whole-valued      *)
(* ones, written "<n>.0" as DataFrame.to_csv writes them.                   *)
(***************************************************************************)
EXTENDS Integers, Sequences, FiniteSets, TLC

\* ---------------------------------------------------------------- bounds
MaxNum == 3
MaxRows == 2
MaxList == 3
MaxRec == 2

\* ------------------------------------------------------ program constants
Procs == {1, 2}
Months == {3, 4}
RequiredCols == {"id", "date", "type", "amount", "category", "note", "source"}
TextCols == {"date", "type", "category", "note", "source"}
RecurringCols == {"id", "type", "amount", "category", "note", "source"}
Today == "2024-03-15"
Other == "Other"
RecurringSource == "Recurring"

\* ------------------------------------------------------------- CSV layer
Str(s) == [str |-> s]
NaN == [nan |-> TRUE]

\* pandas.read_csv's default na_values (the ones the model's texts can hit).
NaValues == {"", "N/A", "NA", "NaN", "null"}

NoFile == [exists |-> FALSE]
CsvFile(header, rows) == [exists |-> TRUE, header |-> header, rows |-> rows]

\* read_csv on a text cell of an object column.
read_cell(s) == IF s \in NaValues THEN NaN ELSE Str(s)

\* DataFrame.to_csv on a text cell: NaN is written as the empty field.
write_cell(v) == IF v = NaN THEN "" ELSE v.str

\* The texts of the numbers: str(int) for ids, repr(float) for amounts.
FormatInt(n) == ToString(n)
FormatFloat(n) == ToString(n) \o ".0"
IntText == [n \in 0..MaxNum |-> FormatInt(n)]
FloatText == [n \in 0..MaxNum |-> FormatFloat(n)]
NumberTexts == {IntText[n] : n \in 0..MaxNum} \cup {FloatText[n] : n \in 0..MaxNum}

\* The C parser of read_csv / pd.to_numeric on one cell.
IsNumber(s) == s \in NumberTexts
NumberOf(s) == CHOOSE n \in 0..MaxNum : s = IntText[n] \/ s = FloatText[n]

\* pd.to_numeric(col, errors="coerce").fillna(0)
to_numeric(s) == IF IsNumber(s) THEN NumberOf(s) ELSE 0

\* str.strip() on the texts the forms can carry.
strip(s) == IF s = " " THEN "" ELSE IF s = " Food" THEN "Food" ELSE s

\* Python truthiness of a cell: only the empty string is falsy (nan is truthy).
Truthy(v) == v # Str("")

\* `v in list` / `v not in list` for a str v: nan never equals a string.
InList(v, list) == \E i \in 1..Len(list) : list[i] = v /\ v # NaN

Range(s) == {s[i] : i \in 1..Len(s)}

\* ------------------------------------------------------ transactions I/O
\* load_transactions, on the month-file itself.
LoadCell(file, i, c) ==
    IF c \notin file.header
    THEN (IF c \in TextCols THEN Str("") ELSE 0)
    ELSE IF c \in {"id", "amount"} THEN to_numeric(file.rows[i][c])
    ELSE read_cell(file.rows[i][c])

load_transactions(file) ==
    IF ~file.exists THEN <<>>
    ELSE [i \in 1..Len(file.rows) |-> [c \in RequiredCols |-> LoadCell(file, i, c)]]

\* df.to_csv(get_month_file(year, month), index=False)
TxnCellText(row, c) ==
    IF c = "id" THEN IntText[row[c]]
    ELSE IF c = "amount" THEN FloatText[row[c]]
    ELSE write_cell(row[c])

to_csv(df) ==
    CsvFile(RequiredCols,
            [i \in 1..Len(df) |-> [c \in RequiredCols |-> TxnCellText(df[i], c)]])

\* The id of the first row instead of the largest id.
first_id(df) == df[1]["id"]

RECURSIVE MaxId(_)
MaxId(df) ==
    IF Len(df) = 1 THEN df[1]["id"]
    ELSE LET m == MaxId(Tail(df)) IN IF df[1]["id"] > m THEN df[1]["id"] ELSE m

\* A next id taken from the row count instead of the largest id.
generate_transaction_id_by_count(df) == Len(df) + 1

generate_transaction_id(df) == IF df = <<>> THEN 1 ELSE MaxId(df) + 1

\* ---------------------------------------------------------- aggregation
RECURSIVE SumAmount(_)
SumAmount(df) == IF df = <<>> THEN 0 ELSE df[1]["amount"] + SumAmount(Tail(df))

OfType(df, t) == SelectSeq(df, LAMBDA r : r["type"] = Str(t))

calculate_totals(df) ==
    IF df = <<>> THEN <<0, 0, 0>>
    ELSE LET income == SumAmount(OfType(df, "income"))
             expenses == SumAmount(OfType(df, "expense"))
         IN <<income, expenses, income - expenses>>

\* Texts in code-point order, for sort_values on a text column.
CodeOrder ==
    <<"", " ", " Food", "2024-03-15", "2024-03-16", "Food", "N/A", "Other",
      "Recurring", "Rent", "expense", "income", "milk", "transfer">>

Rank(v) == CHOOSE i \in 1..Len(CodeOrder) : CodeOrder[i] = v.str

\* groupby(["category", "type"]) drops the rows whose key is missing (dropna).
Grouped(df) == SelectSeq(df, LAMBDA r : r["category"] # NaN /\ r["type"] # NaN)

TallyRow(df, g) ==
    [Category |-> g[1], Type |-> g[2],
     Total |-> SumAmount(SelectSeq(df, LAMBDA r : r["category"] = g[1] /\ r["type"] = g[2]))]

\* sort_values(by=["Type", "Total"], ascending=[True, False]); ties by Category.
TallyBefore(a, b) ==
    \/ Rank(a.Type) < Rank(b.Type)
    \/ a.Type = b.Type /\ a.Total > b.Total
    \/ a.Type = b.Type /\ a.Total = b.Total /\ Rank(a.Category) < Rank(b.Category)

RECURSIVE SortTally(_)
SortTally(S) ==
    IF S = {} THEN <<>>
    ELSE LET first == CHOOSE x \in S : \A y \in S \ {x} : TallyBefore(x, y)
         IN <<first>> \o SortTally(S \ {first})

category_tally(df) ==
    IF df = <<>> THEN <<>>
    ELSE SortTally({TallyRow(df, <<r["category"], r["type"]>>) : r \in Range(Grouped(df))})

RECURSIVE SumTotal(_)
SumTotal(t) == IF t = <<>> THEN 0 ELSE t[1].Total + SumTotal(Tail(t))

\* ------------------------------------------------- lists and recurring I/O
ListFile(col, list) ==
    CsvFile({col}, [i \in 1..Len(list) |-> [c \in {col} |-> write_cell(list[i])]])

load_list(file, col) ==
    IF ~file.exists THEN <<>>
    ELSE [i \in 1..Len(file.rows) |-> read_cell(file.rows[i][col])]

load_categories(fs) == load_list(fs.categories, "category")
load_sources(fs) == load_list(fs.sources, "source")

RecCell(file, i, c) ==
    IF c \notin file.header THEN Str("")
    ELSE IF c \in {"id", "amount"} THEN NumberOf(file.rows[i][c])
    ELSE read_cell(file.rows[i][c])

load_recurring(fs) ==
    IF ~fs.recurring.exists THEN <<>>
    ELSE [i \in 1..Len(fs.recurring.rows) |->
             [c \in RecurringCols |-> RecCell(fs.recurring, i, c)]]

recurring_to_csv(df) ==
    CsvFile(RecurringCols,
            [i \in 1..Len(df) |-> [c \in RecurringCols |-> TxnCellText(df[i], c)]])

\* ------------------------------------------------------------ file trees
\* The tracked files of one directory: budget_data/<year>-<month>.csv per
\* month, categories.csv, sources.csv, recurring.csv.
EmptyTree ==
    [data |-> [m \in Months |-> NoFile], categories |-> NoFile,
     sources |-> NoFile, recurring |-> NoFile]

Pick(a, b) == IF a.exists THEN a ELSE b

\* shutil.copy of every file that exists in `from` over `onto`.
Overlay(from, onto) ==
    [data |-> [m \in Months |-> Pick(from.data[m], onto.data[m])],
     categories |-> Pick(from.categories, onto.categories),
     sources |-> Pick(from.sources, onto.sources),
     recurring |-> Pick(from.recurring, onto.recurring)]

NoRepo == [exists |-> FALSE]
Clone(tree) == [exists |-> TRUE, work |-> tree, head |-> tree]

\* ------------------------------------------------------------- git state
\* rel[p] is how the HEAD of p's clone stands to the remote branch, hrel how
\* the HEAD of process 1 stands to the HEAD of process 2.
Peer(p) == CHOOSE q \in Procs : q # p
Flip(r) == IF r = "ahead" THEN "behind" ELSE IF r = "behind" THEN "ahead" ELSE r
Advance(r) == IF r \in {"equal", "ahead"} THEN "ahead" ELSE "diverged"
HeadRel(w, p) == IF p = 1 THEN w.hrel ELSE Flip(w.hrel)
AsHrel(p, r) == IF p = 1 THEN r ELSE Flip(r)

\* Which remote operations raise under each fault of the environment.
Faults == {"none", "pull", "commit", "push", "force", "offline"}
Fails(f, op) ==
    \/ f = "pull" /\ op = "pull"
    \/ f = "commit" /\ op = "commit"
    \/ f = "push" /\ op = "push"
    \/ f = "force" /\ op \in {"push", "force"}
    \/ f = "offline" /\ op \in {"clone", "pull", "push", "force"}

\* shutil.rmtree(REPO_DIR); Repo.clone_from(REMOTE_REPO, REPO_DIR)
clone_from(w, p, f) ==
    IF Fails(f, "clone")
    THEN [w EXCEPT !.repo[p] = NoRepo, !.raised = "clone"]
    ELSE [w EXCEPT !.repo[p] = Clone(w.remote),
                   !.rel[p] = "equal",
                   !.hrel = AsHrel(p, Flip(w.rel[Peer(p)]))]

\* repo.remotes.origin.pull(): raises on a fault, on diverged histories and
\* when the checkout would overwrite staged changes.
PullRaises(w, p, f) ==
    \/ Fails(f, "pull")
    \/ w.rel[p] = "diverged"
    \/ w.rel[p] = "behind" /\ w.repo[p].work # w.repo[p].head

pull(w, p) ==
    IF w.rel[p] = "behind"
    THEN [w EXCEPT !.repo[p] = Clone(w.remote),
                   !.rel[p] = "equal",
                   !.hrel = AsHrel(p, Flip(w.rel[Peer(p)]))]
    ELSE w

clone_or_pull_repo(w, p, f) ==
    LET fresh == IF ~w.repo[p].exists THEN clone_from(w, p, f)
                 ELSE IF PullRaises(w, p, f) THEN clone_from(w, p, f)
                 ELSE pull(w, p)
    IN IF fresh.raised # "no" THEN fresh
       ELSE [fresh EXCEPT !.local[p] = Overlay(fresh.repo[p].work, w.local[p])]

\* repo.index.commit(...): a failure is swallowed.
commit(w, p, f) ==
    IF Fails(f, "commit") THEN w
    ELSE [w EXCEPT !.repo[p].head = w.repo[p].work,
                   !.rel[p] = Advance(w.rel[p]),
                   !.hrel = AsHrel(p, Advance(HeadRel(w, p)))]

\* The remote branch is set to p's HEAD.
Publish(w, p) ==
    [w EXCEPT !.remote = w.repo[p].head,
              !.rel = [q \in Procs |-> IF q = p THEN "equal" ELSE Flip(HeadRel(w, p))],
              !.pushed = w.pushed + 1]

\* repo.remotes.origin.push(), and repo.git.push("--force") when it raises.
PushRaises(w, p, f) == Fails(f, "push") \/ w.rel[p] \in {"behind", "diverged"}

try_push(w, p, f) ==
    IF PushRaises(w, p, f) THEN [w EXCEPT !.raised = "push"]
    ELSE IF w.rel[p] = "ahead" THEN Publish(w, p) ELSE w

\* A force-push that gives up silently.
force_push_swallowed(w, p, f) == [w EXCEPT !.raised = "no"]

force_push(w, p, f) ==
    IF Fails(f, "force") THEN w
    ELSE [Publish(w, p) EXCEPT !.forced = TRUE, !.raised = "no"]

push(w, p, f) ==
    LET tried == try_push(w, p, f)
    IN IF tried.raised = "push" THEN force_push(tried, p, f) ELSE tried

\* Lines 58-73: clone if needed, copy the working set in, stage, commit.
stage_and_commit(w, p, f) ==
    LET cloned == IF w.repo[p].exists THEN w ELSE clone_from(w, p, f)
    IN IF cloned.raised # "no" THEN cloned
       ELSE commit([cloned EXCEPT
                       !.repo[p].work = Overlay(w.local[p], cloned.repo[p].work),
                       !.syncs = cloned.syncs + 1], p, f)

push_changes_to_repo(w, p, f) ==
    LET staged == stage_and_commit(w, p, f)
    IN IF staged.raised # "no" THEN staged ELSE push(staged, p, f)

\* ------------------------------------------------------------ store writes
save_transactions(w, p, f, df, m) ==
    push_changes_to_repo(
        [w EXCEPT !.local[p].data[m] = to_csv(df), !.wrote = @ \cup {<<"data", m>>}], p, f)

save_categories(w, p, f, categories) ==
    push_changes_to_repo(
        [w EXCEPT !.local[p].categories = ListFile("category", categories),
                  !.wrote = @ \cup {<<"categories">>}], p, f)

save_sources(w, p, f, sources) ==
    push_changes_to_repo(
        [w EXCEPT !.local[p].sources = ListFile("source", sources),
                  !.wrote = @ \cup {<<"sources">>}], p, f)

save_recurring(w, p, f, df) ==
    push_changes_to_repo(
        [w EXCEPT !.local[p].recurring = recurring_to_csv(df),
                  !.wrote = @ \cup {<<"recurring">>}], p, f)

save_transaction(w, p, f, transaction, m) ==
    save_transactions(w, p, f,
        Append(load_transactions(w.local[p].data[m]), transaction), m)

Transaction(id, date, type, amount, category, note, source) ==
    [c \in RequiredCols |->
        CASE c = "id" -> id
          [] c = "date" -> date
          [] c = "type" -> type
          [] c = "amount" -> amount
          [] c = "category" -> category
          [] c = "note" -> note
          [] c = "source" -> source]

\* -------------------------------------------------------------- recurring
next_recurring_id(df) == IF df = <<>> THEN 1 ELSE MaxId(df) + 1

add_recurring(w, p, f, t_type, amount, category, note) ==
    LET df == load_recurring(w.local[p])
        row == [c \in RecurringCols |->
                   CASE c = "id" -> next_recurring_id(df)
                     [] c = "type" -> Str(t_type)
                     [] c = "amount" -> amount
                     [] c = "category" -> Str(category)
                     [] c = "note" -> Str(note)
                     [] c = "source" -> Str("")]
    IN save_recurring(w, p, f, Append(df, row))

delete_recurring(w, p, f, rid) ==
    save_recurring(w, p, f,
        SelectSeq(load_recurring(w.local[p]), LAMBDA r : r["id"] # rid))

\* pd.isna(source_value) or not str(source_value).strip()
source_of(row) ==
    IF row["source"] = NaN \/ strip(row["source"].str) = ""
    THEN Str(RecurringSource) ELSE row["source"]

RECURSIVE ApplyRows(_, _)
ApplyRows(df, rec_df) ==
    IF rec_df = <<>> THEN df
    ELSE LET row == Head(rec_df)
         IN ApplyRows(
                Append(df, Transaction(generate_transaction_id(df), Str(Today),
                                       row["type"], row["amount"], row["category"],
                                       row["note"], source_of(row))),
                Tail(rec_df))

\* One save per recurring charge instead of one combined save.
RECURSIVE SaveEach(_, _, _, _, _)
SaveEach(w, p, f, m, rec_df) ==
    IF rec_df = <<>> \/ w.raised # "no" THEN w
    ELSE LET df == load_transactions(w.local[p].data[m])
             row == Head(rec_df)
         IN SaveEach(
                save_transaction(w, p, f,
                    Transaction(generate_transaction_id(df), Str(Today), row["type"],
                                row["amount"], row["category"], row["note"],
                                source_of(row)), m),
                p, f, m, Tail(rec_df))

apply_recurring_save_each(w, p, f, m) ==
    LET rec_df == load_recurring(w.local[p])
        saved == SaveEach(w, p, f, m, rec_df)
    IN IF saved.raised # "no" THEN saved ELSE [saved EXCEPT !.ret = Len(rec_df)]

apply_recurring_to_month(w, p, f, m) ==
    LET rec_df == load_recurring(w.local[p])
    IN IF rec_df = <<>> THEN [w EXCEPT !.ret = 0]
       ELSE LET saved == save_transactions(w, p, f,
                    ApplyRows(load_transactions(w.local[p].data[m]), rec_df), m)
            IN IF saved.raised # "no" THEN saved ELSE [saved EXCEPT !.ret = Len(rec_df)]

\* ------------------------------------------------------------ form handlers
\* `category`, `source_choice` are the selected options (cells of the lists,
\* or Other); the custom_*, note and new_* arguments are typed texts.
add_txn_transactions(w, p, f, m, t_type, amount, category, custom_category, note, source_choice, custom_source, txn_date) ==
    LET df == load_transactions(w.local[p].data[m])
        categories == load_categories(w.local[p])
        sources == load_sources(w.local[p])
        cat == IF category = Str(Other) THEN Str(strip(custom_category)) ELSE category
        w1 == IF category = Str(Other) /\ Truthy(cat) /\ ~InList(cat, categories)
              THEN save_categories(w, p, f, Append(categories, cat)) ELSE w
        src == IF source_choice = Str(Other) THEN Str(strip(custom_source))
               ELSE source_choice
        w2 == IF w1.raised # "no" THEN w1
              ELSE IF source_choice = Str(Other) /\ Truthy(src) /\ ~InList(src, sources)
              THEN save_sources(w1, p, f, Append(sources, src)) ELSE w1
    IN IF w2.raised # "no" THEN w2
       ELSE IF ~Truthy(cat) THEN [w2 EXCEPT !.warned = "category"]
       ELSE IF ~Truthy(src) THEN [w2 EXCEPT !.warned = "source"]
       ELSE save_transaction(w2, p, f,
                Transaction(generate_transaction_id(df), Str(txn_date), Str(t_type),
                            amount, cat, Str(note), src), m)

edit_transaction(w, p, f, m, tid, new_amt, new_cat, new_note, edit_date, new_source_choice, edit_custom_source) ==
    LET df == load_transactions(w.local[p].data[m])
        sources == load_sources(w.local[p])
        new_source_value == Str(strip(edit_custom_source))
        final_source == IF new_source_choice = Str(Other) THEN new_source_value
                        ELSE new_source_choice
        w1 == IF new_source_choice = Str(Other) /\ ~InList(new_source_value, sources)
              THEN save_sources(w, p, f, Append(sources, new_source_value)) ELSE w
        edited == [i \in 1..Len(df) |->
                      IF df[i]["id"] = tid
                      THEN [df[i] EXCEPT !["amount"] = new_amt,
                                         !["category"] = Str(new_cat),
                                         !["note"] = Str(new_note),
                                         !["date"] = Str(edit_date),
                                         !["source"] = final_source]
                      ELSE df[i]]
    IN IF new_source_choice = Str(Other) /\ ~Truthy(new_source_value)
       THEN [w EXCEPT !.warned = "source"]
       ELSE IF w1.raised # "no" THEN w1
       ELSE save_transactions(w1, p, f, edited, m)

delete_transaction(w, p, f, m, tid) ==
    save_transactions(w, p, f,
        SelectSeq(load_transactions(w.local[p].data[m]), LAMBDA r : r["id"] # tid), m)

\* Settings tab.  `c != dc` keeps every nan entry (nan != nan).
add_category(w, p, f, nc) ==
    LET cats == load_categories(w.local[p])
    IN IF nc # "" /\ ~InList(Str(nc), cats)
       THEN save_categories(w, p, f, Append(cats, Str(nc))) ELSE w

delete_category(w, p, f, dc) ==
    save_categories(w, p, f,
        SelectSeq(load_categories(w.local[p]), LAMBDA c : c # dc \/ c = NaN))

add_source(w, p, f, ns) ==
    LET srcs == load_sources(w.local[p])
    IN IF ns # "" /\ ~InList(Str(ns), srcs)
       THEN save_sources(w, p, f, Append(srcs, Str(ns))) ELSE w

delete_source(w, p, f, ds) ==
    save_sources(w, p, f,
        SelectSeq(load_sources(w.local[p]), LAMBDA c : c # ds \/ c = NaN))

\* ------------------------------------------------------------------- state
VARIABLES
    local,   \* local[p]: the working set of process p (budget_data/, *.csv)
    repo,    \* repo[p]: p's clone in budget_repo/ (work tree and HEAD), or NoRepo
    remote,  \* the tree at the remote branch
    rel,     \* rel[p]: p's HEAD against the remote branch
    hrel,    \* HEAD of process 1 against HEAD of process 2
    fault,   \* which remote operations currently raise
    pc,      \* pc[p]: where p's script run stands when runs interleave
    last     \* what the latest step did

vars == <<local, repo, remote, rel, hrel, fault, pc, last>>

NoStep ==
    [op |-> "none", p |-> 0, m |-> 0, tid |-> 0, item |-> NaN,
     raised |-> "no", warned |-> "no", syncs |-> 0, pushed |-> 0, forced |-> FALSE,
     ret |-> 0, wrote |-> {}]

World ==
    [local |-> local, repo |-> repo, remote |-> remote, rel |-> rel, hrel |-> hrel,
     raised |-> "no", warned |-> "no", syncs |-> 0, pushed |-> 0, forced |-> FALSE,
     ret |-> 0, wrote |-> {}]

Init ==
    /\ local = [p \in Procs |-> EmptyTree]
    /\ repo = [p \in Procs |-> NoRepo]
    /\ remote = EmptyTree
    /\ rel = [p \in Procs |-> "equal"]
    /\ hrel = "equal"
    /\ fault = "none"
    /\ pc = [p \in Procs |-> "idle"]
    /\ last = NoStep

\* The state after a step that ended in world w.
Finish(w, step) ==
    /\ local' = w.local
    /\ repo' = w.repo
    /\ remote' = w.remote
    /\ rel' = w.rel
    /\ hrel' = w.hrel
    /\ last' = [step EXCEPT !.raised = w.raised, !.warned = w.warned,
                            !.syncs = w.syncs, !.pushed = w.pushed,
                            !.forced = w.forced, !.ret = w.ret, !.wrote = w.wrote]

\* Line 245: every script run starts with clone_or_pull_repo().
Synced(p) == clone_or_pull_repo(World, p, fault)

Step(op, p) == [NoStep EXCEPT !.op = op, !.p = p]

SetFault(f) ==
    /\ f # fault
    /\ fault' = f
    /\ UNCHANGED <<local, repo, remote, rel, hrel, pc, last>>

\* A script run in which no button is pressed, or whose sync-down raises.
ScriptRun(p) ==
    /\ pc[p] = "idle"
    /\ Finish(Synced(p), Step("run", p))
    /\ UNCHANGED <<fault, pc>>

\* ----------------------------------------------------- options on the page
TableOf(p, m) == load_transactions(Synced(p).local[p].data[m])
Ids(df) == {df[i]["id"] : i \in 1..Len(df)}
CategoryOptions(p) == Range(load_categories(Synced(p).local[p])) \cup {Str(Other)}
SourceOptions(p) == Range(load_sources(Synced(p).local[p])) \cup {Str(Other)}

\* Lines 371-376: the sources, the row's own source when truthy, and Other.
SourceEditOptions(p, m, tid) ==
    LET df == TableOf(p, m)
        current == {df[i]["source"] : i \in {j \in 1..Len(df) : df[j]["id"] = tid}}
    IN SourceOptions(p) \cup {v \in current : Truthy(v)}

\* ------------------------------------------------------------- script runs
\* Each is one Streamlit script run: the sync-down of line 245, then the
\* handler of the pressed button.
AddTransaction(p, m, t_type, amount, category, custom_category, note, source_choice, custom_source, txn_date) ==
    LET w == Synced(p)
        df == TableOf(p, m)
    IN /\ pc[p] = "idle"
       /\ w.raised = "no"
       /\ category = Str(Other) \/ custom_category = ""
       /\ source_choice = Str(Other) \/ custom_source = ""
       /\ Len(df) < MaxRows
       /\ generate_transaction_id(df) <= MaxNum
       /\ Len(load_categories(w.local[p])) < MaxList
       /\ Len(load_sources(w.local[p])) < MaxList
       /\ Finish(add_txn_transactions(w, p, fault, m, t_type, amount, category,
                     custom_category, note, source_choice, custom_source, txn_date),
                 [Step("add", p) EXCEPT !.m = m, !.tid = generate_transaction_id(df)])
       /\ UNCHANGED <<fault, pc>>

EditTransaction(p, m, tid, new_amt, new_cat, new_note, edit_date, new_source_choice, edit_custom_source) ==
    LET w == Synced(p)
    IN /\ pc[p] = "idle"
       /\ w.raised = "no"
       /\ tid \in Ids(TableOf(p, m))
       /\ new_source_choice = Str(Other) \/ edit_custom_source = ""
       /\ Len(load_sources(w.local[p])) < MaxList
       /\ Finish(edit_transaction(w, p, fault, m, tid, new_amt, new_cat, new_note,
                     edit_date, new_source_choice, edit_custom_source),
                 [Step("edit", p) EXCEPT !.m = m, !.tid = tid])
       /\ UNCHANGED <<fault, pc>>

DeleteTransaction(p, m, tid) ==
    LET w == Synced(p)
    IN /\ pc[p] = "idle"
       /\ w.raised = "no"
       /\ tid \in Ids(TableOf(p, m))
       /\ Finish(delete_transaction(w, p, fault, m, tid),
                 [Step("delete", p) EXCEPT !.m = m, !.tid = tid])
       /\ UNCHANGED <<fault, pc>>

ApplyRecurring(p, m) ==
    LET w == Synced(p)
        df == TableOf(p, m)
        rec_df == load_recurring(w.local[p])
    IN /\ pc[p] = "idle"
       /\ w.raised = "no"
       /\ Len(df) + Len(rec_df) <= MaxRows
       /\ generate_transaction_id(df) + Len(rec_df) - 1 <= MaxNum
       /\ Finish(apply_recurring_to_month(w, p, fault, m),
                 [Step("apply", p) EXCEPT !.m = m])
       /\ UNCHANGED <<fault, pc>>

AddCategory(p, nc) ==
    LET w == Synced(p)
    IN /\ pc[p] = "idle"
       /\ w.raised = "no"
       /\ Len(load_categories(w.local[p])) < MaxList
       /\ Finish(add_category(w, p, fault, nc),
                 [Step("add_category", p) EXCEPT !.item = Str(nc)])
       /\ UNCHANGED <<fault, pc>>

DeleteCategory(p, dc) ==
    LET w == Synced(p)
    IN /\ pc[p] = "idle"
       /\ w.raised = "no"
       /\ dc \in Range(load_categories(w.local[p]))
       /\ dc # Str("None")
       /\ Finish(delete_category(w, p, fault, dc),
                 [Step("delete_category", p) EXCEPT !.item = dc])
       /\ UNCHANGED <<fault, pc>>

AddSource(p, ns) ==
    LET w == Synced(p)
    IN /\ pc[p] = "idle"
       /\ w.raised = "no"
       /\ Len(load_sources(w.local[p])) < MaxList
       /\ Finish(add_source(w, p, fault, ns),
                 [Step("add_source", p) EXCEPT !.item = Str(ns)])
       /\ UNCHANGED <<fault, pc>>

DeleteSource(p, ds) ==
    LET w == Synced(p)
    IN /\ pc[p] = "idle"
       /\ w.raised = "no"
       /\ ds \in Range(load_sources(w.local[p]))
       /\ ds # Str("None")
       /\ Finish(delete_source(w, p, fault, ds),
                 [Step("delete_source", p) EXCEPT !.item = ds])
       /\ UNCHANGED <<fault, pc>>

AddRecurring(p, rt, ra, rc, rn) ==
    LET w == Synced(p)
        df == load_recurring(w.local[p])
    IN /\ pc[p] = "idle"
       /\ w.raised = "no"
       /\ Len(df) < MaxRec
       /\ next_recurring_id(df) <= MaxNum
       /\ Finish(add_recurring(w, p, fault, rt, ra, rc, rn), Step("add_recurring", p))
       /\ UNCHANGED <<fault, pc>>

DeleteRecurring(p, rid) ==
    LET w == Synced(p)
    IN /\ pc[p] = "idle"
       /\ w.raised = "no"
       /\ rid \in Ids(load_recurring(w.local[p]))
       /\ Finish(delete_recurring(w, p, fault, rid),
                 [Step("delete_recurring", p) EXCEPT !.tid = rid])
       /\ UNCHANGED <<fault, pc>>

\* ---------------------------------------------- single writer: transactions
\* One writer and no fault.  Month-file 3 goes through every handler,
\* month-file 4 is only added to.
Writer == CHOOSE p \in Procs : \A q \in Procs : p <= q
AllHandlers == {3}

TypeInputs == {"income", "expense"}

Next ==
    \/ \E m \in Months, category \in CategoryOptions(Writer),
          source_choice \in SourceOptions(Writer) :
          AddTransaction(Writer, m, "expense", 2, category,
                         IF category = Str(Other) THEN " Food" ELSE "", "",
                         source_choice,
                         IF source_choice = Str(Other) THEN "Rent" ELSE "", Today)
    \/ \E m \in AllHandlers, tid \in 1..MaxNum :
          \E new_source_choice \in SourceEditOptions(Writer, m, tid) \ {Str(Other)} :
              EditTransaction(Writer, m, tid, 3, "Food", "", "2024-03-16",
                              new_source_choice, "")
    \/ \E m \in AllHandlers, tid \in 1..MaxNum : DeleteTransaction(Writer, m, tid)
    \/ \E m \in AllHandlers : ApplyRecurring(Writer, m)
    \/ AddRecurring(Writer, "income", 2, "Food", "")
    \/ ScriptRun(Writer)

Spec == Init /\ [][Next]_vars

\* ------------------------------------------- single writer: row contents
\* One writer, no fault, month-file 3, with the texts pandas reads as missing.
NextRows ==
    \/ \E category \in CategoryOptions(Writer), source_choice \in SourceOptions(Writer),
          note \in {"", "N/A"} :
          AddTransaction(Writer, 3, "expense", 2, category,
                         IF category = Str(Other) THEN " Food" ELSE "", note,
                         source_choice,
                         IF source_choice = Str(Other) THEN "Rent" ELSE "", Today)
    \/ \E tid \in 1..MaxNum, new_cat \in {"", "Food"} :
          \E new_source_choice \in SourceEditOptions(Writer, 3, tid) \ {Str(Other)} :
              EditTransaction(Writer, 3, tid, 3, new_cat, "milk", "2024-03-16",
                              new_source_choice, "")
    \/ \E tid \in 1..MaxNum : DeleteTransaction(Writer, 3, tid)
    \/ ApplyRecurring(Writer, 3)
    \/ \E rt \in TypeInputs : AddRecurring(Writer, rt, 2, "Food", "")
    \/ \E rid \in 1..MaxNum : DeleteRecurring(Writer, rid)
    \/ ScriptRun(Writer)

SpecRows == Init /\ [][NextRows]_vars

\* ------------------------------------------------- single writer: lists
\* One writer, no fault: the Add form and the Edit form with typed categories
\* and sources, and the Settings tab.
NextLists ==
    \/ \E category \in CategoryOptions(Writer), source_choice \in SourceOptions(Writer),
          custom_category \in {"", " Food"}, custom_source \in {"", "Rent"} :
          AddTransaction(Writer, 3, "income", 2, category, custom_category, "",
                         source_choice, custom_source, Today)
    \/ \E tid \in 1..MaxNum, edit_custom_source \in {"", "Rent"} :
          EditTransaction(Writer, 3, tid, 3, "Food", "", Today, Str(Other),
                          edit_custom_source)
    \/ \E nc \in {"", "N/A"} : AddCategory(Writer, nc)
    \/ \E dc \in Range(load_categories(Synced(Writer).local[Writer])) :
          DeleteCategory(Writer, dc)
    \/ \E ns \in {"", "N/A"} : AddSource(Writer, ns)
    \/ \E ds \in Range(load_sources(Synced(Writer).local[Writer])) :
          DeleteSource(Writer, ds)
    \/ ScriptRun(Writer)

SpecLists == Init /\ [][NextLists]_vars

\* ------------------------------------------------ single writer: faults
\* One writer under every fault of the remote operations.
NextFaults ==
    \/ \E note \in {"", "milk"} :
          AddTransaction(Writer, 3, "expense", 2, Str(Other), "Food", note,
                         Str(Other), "Rent", Today)
    \/ \E nc \in {"Food", "Rent"} : AddCategory(Writer, nc)
    \/ AddRecurring(Writer, "income", 2, "Food", "")
    \/ \E f \in Faults : SetFault(f)
    \/ ScriptRun(Writer)

SpecFaults == Init /\ [][NextFaults]_vars

\* --------------------------------------- single writer: re-sync after saves
\* One writer whose pulls and commits may fail.  Neither failure reaches the
\* caller (the pull falls back to a re-clone, the commit's is swallowed), so
\* every save of this specification returns normally.
ResyncFaults == {"none", "pull", "commit"}

NextResync ==
    \/ \E note \in {"", "milk"} :
          AddTransaction(Writer, 3, "expense", 2, Str(Other), "Food", note,
                         Str(Other), "Rent", Today)
    \/ \E nc \in {"Food", "Rent"} : AddCategory(Writer, nc)
    \/ \E f \in ResyncFaults : SetFault(f)
    \/ ScriptRun(Writer)

SpecResync == Init /\ [][NextResync]_vars

\* ------------------------------------------------ the store on its own
\* generate_transaction_id and save_transactions / load_transactions applied
\* to month-files and tables of any content, not only those the forms write.
IdTexts == {IntText[1], IntText[MaxNum], FloatText[2], "x", ""}
NoteTexts == {"", "milk"}

FileRow(header, id, note) ==
    [c \in header |->
        CASE c = "id" -> id
          [] c = "date" -> Today
          [] c = "type" -> "expense"
          [] c = "amount" -> FloatText[2]
          [] c = "category" -> "Food"
          [] c = "note" -> note
          [] c = "source" -> "Bank"]

FileRows(header) ==
    {FileRow(header, id, note) : id \in IdTexts, note \in NoteTexts}

SeqsUpTo(S, n) == UNION {[1..k -> S] : k \in 0..n}

\* Month-files as they may lie in budget_data/: with or without an id column.
MonthFiles ==
    UNION {{CsvFile(header, rows) : rows \in SeqsUpTo(FileRows(header), MaxRows)} :
           header \in {RequiredCols, RequiredCols \ {"id"}}}

\* Tables conforming to the transaction schema.
ConformingTables ==
    SeqsUpTo({Transaction(id, Str(Today), Str("expense"), 2, Str("Food"), Str(note),
                          Str("Bank")) : id \in {1, MaxNum}, note \in NoteTexts},
             MaxRows)

InitPure ==
    /\ \E file \in MonthFiles :
          local = [p \in Procs |->
                      IF p = Writer THEN [EmptyTree EXCEPT !.data[3] = file]
                      ELSE EmptyTree]
    /\ repo = [p \in Procs |-> NoRepo]
    /\ remote = EmptyTree
    /\ rel = [p \in Procs |-> "equal"]
    /\ hrel = "equal"
    /\ fault = "none"
    /\ pc = [p \in Procs |-> "idle"]
    /\ last = NoStep

\* generate_transaction_id(load_transactions(year, month))
GenerateId(p, m) ==
    /\ last' = [Step("generate_id", p) EXCEPT
                   !.m = m,
                   !.tid = generate_transaction_id(load_transactions(local[p].data[m]))]
    /\ UNCHANGED <<local, repo, remote, rel, hrel, fault, pc>>

\* save_transactions(T, year, month)
SaveTable(p, m, T) ==
    /\ Finish(save_transactions(World, p, fault, T, m), [Step("save", p) EXCEPT !.m = m])
    /\ UNCHANGED <<fault, pc>>

NextPure ==
    \/ GenerateId(Writer, 3)
    \/ \E T \in ConformingTables : SaveTable(Writer, 3, T)

SpecPure == InitPure /\ [][NextPure]_vars

\* -------------------------------------------------- two processes racing
\* Two processes run the script against the same remote.  A run is not atomic
\* here: the sync-down of line 245, the handler's write with the commit and
\* the plain push of lines 58-75, and the force-push of line 77 are separate
\* steps, so the other process may push in between.
SyncDown(p) ==
    LET w == Synced(p)
    IN /\ pc[p] = "idle"
       /\ Finish(w, Step("sync_down", p))
       /\ pc' = [pc EXCEPT ![p] = IF w.raised = "no" THEN "synced" ELSE "idle"]
       /\ UNCHANGED fault

\* Lines 466-468 up to the plain push: the Settings tab adds category nc.
SaveCategory(p, nc) ==
    LET cats == load_categories(local[p])
        written == [World EXCEPT
                       !.local[p].categories = ListFile("category", Append(cats, Str(nc))),
                       !.wrote = @ \cup {<<"categories">>}]
        staged == stage_and_commit(written, p, fault)
        tried == IF staged.raised # "no" THEN staged ELSE try_push(staged, p, fault)
    IN /\ pc[p] = "synced"
       /\ nc # "" /\ ~InList(Str(nc), cats)
       /\ Len(cats) < MaxList
       /\ Finish(tried, [Step("sync_up", p) EXCEPT !.item = Str(nc)])
       /\ pc' = [pc EXCEPT ![p] = IF tried.raised = "push" THEN "force" ELSE "idle"]
       /\ UNCHANGED fault

\* Line 77: the plain push raised.
ForcePush(p) ==
    /\ pc[p] = "force"
    /\ Finish(force_push([World EXCEPT !.raised = "push"], p, fault),
              [Step("force", p) EXCEPT !.item = last.item])
    /\ pc' = [pc EXCEPT ![p] = "idle"]
    /\ UNCHANGED fault

\* The run ends without a button pressed.
EndRun(p) ==
    /\ pc[p] = "synced"
    /\ pc' = [pc EXCEPT ![p] = "idle"]
    /\ last' = Step("end", p)
    /\ UNCHANGED <<local, repo, remote, rel, hrel, fault>>

NextSync ==
    \E p \in Procs :
        \/ SyncDown(p)
        \/ \E nc \in {"Food", "Rent"} : SaveCategory(p, nc)
        \/ ForcePush(p)
        \/ EndRun(p)

SpecSync == Init /\ [][NextSync]_vars

\* ------------------------------------------------------------------ claims
FileIds(file) == IF file.exists THEN {file.rows[i]["id"] : i \in 1..Len(file.rows)} ELSE {}
RowCount(file) == IF file.exists THEN Len(file.rows) ELSE 0

\* C1: with a single writer, starting from empty month-files, no two rows of
\* one month-file carry the same id, whatever sequence of Add, Edit, Delete
\* and Apply-recurring runs has happened (two month-files may share ids).
C1_UniqueIdsPerMonthFile ==
    \A m \in Months :
        LET file == local[Writer].data[m]
        IN file.exists =>
              \A i, j \in 1..Len(file.rows) :
                  i # j => file.rows[i]["id"] # file.rows[j]["id"]

\* An add after a delete left a gap in month-file 3, and month-file 4 holds
\* an id that month-file 3 holds too.
C1_Witness ==
    /\ last.op = "add"
    /\ RowCount(local[Writer].data[3]) = 2
    /\ "1" \notin FileIds(local[Writer].data[3])
    /\ FileIds(local[Writer].data[3]) \cap FileIds(local[Writer].data[4]) # {}

\* C2: a failing remote operation never makes a save_* call raise: every
\* handler run that got past the sync-down ends without an exception.
C2_SaveNeverRaises == last.op # "run" => last.raised = "no"

\* C3: an Add submission rejected for a blank category or a blank source
\* writes no file and makes no sync-up.
C3_RejectedAddWritesNothing ==
    (last.op = "add" /\ last.warned # "no") => (last.wrote = {} /\ last.syncs = 0)

\* C4: a Delete run removes exactly one row of the month-file, the one with
\* the chosen id, and leaves every other row of the file as it was.
C4_DeleteRemovesExactlyThatRow ==
    [][\A m \in Months, tid \in 1..MaxNum :
          DeleteTransaction(Writer, m, tid) =>
              LET before == Synced(Writer).local[Writer].data[m].rows
                  kept == SelectSeq(before, LAMBDA r : r["id"] # IntText[tid])
              IN /\ Len(kept) = Len(before) - 1
                 /\ local'[Writer].data[m].rows = kept]_vars

\* C5: apply_recurring_to_month with k recurring charges appends k rows to
\* the month-file, each with an id above every id that was in the file and
\* above the ids appended before it, leaves the rows that were there as they
\* were, and returns k.
C5_ApplyAppendsK ==
    [][\A m \in Months :
          (ApplyRecurring(Writer, m) /\ load_recurring(Synced(Writer).local[Writer]) # <<>>) =>
              LET before == Synced(Writer).local[Writer].data[m]
                  old == IF before.exists THEN before.rows ELSE <<>>
                  k == Len(load_recurring(Synced(Writer).local[Writer]))
                  after == local'[Writer].data[m].rows
              IN /\ Len(after) = Len(old) + k
                 /\ SubSeq(after, 1, Len(old)) = old
                 /\ \A i \in (Len(old) + 1)..Len(after) :
                       \A j \in 1..(i - 1) :
                           to_numeric(after[i]["id"]) > to_numeric(after[j]["id"])
                 /\ last'.ret = k]_vars

\* C6: for every loaded table, generate_transaction_id returns 1 when the
\* table is empty; otherwise the result minus one is an id of the table and
\* the result is strictly greater than every id of the table.
C6_NextIdIsMaxPlusOne ==
    last.op = "generate_id" =>
        LET df == load_transactions(local[last.p].data[last.m])
        IN /\ df = <<>> => last.tid = 1
           /\ df # <<>> => /\ \E i \in 1..Len(df) : df[i]["id"] = last.tid - 1
                           /\ \A i \in 1..Len(df) : df[i]["id"] < last.tid

\* The largest id comes first in a two-row file whose second id is not a number.
C6_Witness ==
    /\ last.op = "generate_id"
    /\ last.tid = MaxNum + 1
    /\ LET file == local[last.p].data[last.m]
       IN /\ "id" \in file.header
          /\ Len(file.rows) = 2
          /\ file.rows[1]["id"] = IntText[MaxNum]
          /\ file.rows[2]["id"] = "x"

C8_SaveLoadRoundTrip ==
    [][\A T \in ConformingTables :
          SaveTable(Writer, 3, T) => load_transactions(local'[Writer].data[3]) = T]_vars

\* C9: for every table load_transactions returns, the Total column of
\* category_tally sums to income_sum + expense_sum of calculate_totals.
C9_TallyMatchesTotals ==
    \A m \in Months :
        LET df == load_transactions(local[Writer].data[m])
            totals == calculate_totals(df)
        IN SumTotal(category_tally(df)) = totals[1] + totals[2]

NoDuplicates(file) ==
    file.exists => \A i, j \in 1..Len(file.rows) : i # j => file.rows[i] # file.rows[j]

\* C10: categories.csv never holds the same string twice, and neither does
\* sources.csv, after any sequence of Add Category / Add Source, implicit
\* adds from the Add and Edit forms, and Delete Category / Delete Source.
C10_ListsHoldNoDuplicates ==
    NoDuplicates(local[Writer].categories) /\ NoDuplicates(local[Writer].sources)

FileRowSet(file) == IF file.exists THEN Range(file.rows) ELSE {}

\* C11: once a save has returned normally, the rows it saved are still in the
\* local working set after every later sync-down of the same process, whether
\* the pull succeeded, failed and was replaced by a re-clone, or a commit
\* failure was swallowed in between.
C11_SavedRowsSurviveSyncDown ==
    [][ScriptRun(Writer) =>
          /\ \A m \in Months :
                FileRowSet(local[Writer].data[m]) \subseteq FileRowSet(local'[Writer].data[m])
          /\ FileRowSet(local[Writer].categories) \subseteq FileRowSet(local'[Writer].categories)
          /\ FileRowSet(local[Writer].sources) \subseteq FileRowSet(local'[Writer].sources)]_vars

\* C12: apply_recurring_to_month makes exactly one save, hence one sync_up,
\* of the target month-file when at least one recurring charge exists,
\* however many there are; with no recurring charge it writes no file, makes
\* no sync_up and returns 0.
C12_ApplySavesOnce ==
    (last.op = "apply" /\ last.raised = "no") =>
        LET k == Len(load_recurring(local[last.p]))
        IN IF k = 0
           THEN last.wrote = {} /\ last.syncs = 0 /\ last.pushed = 0 /\ last.ret = 0
           ELSE last.wrote = {<<"data", last.m>>} /\ last.syncs = 1 /\ last.ret = k

\* Two recurring charges were applied in one call.
C12_Witness ==
    /\ last.op = "apply" /\ last.raised = "no"
    /\ Len(load_recurring(local[last.p])) = 2
    /\ last.ret = 2 /\ last.syncs = 1 /\ last.pushed = 1
    /\ RowCount(local[last.p].data[last.m]) = 2

====
